---- MODULE Spec2Model ----
(***************************************************************************)
(* Model of the x402 payment facilitator's "upto" scheme:                  *)
(*   - the settlement orchestrator settleUptoSession                       *)
(*     (src/src/upto/settlement.ts) running as concurrent asynchronous     *)
(*     invocations over a shared session store,                            *)
(*   - the verification sequence UptoEvmScheme.verify and the settlement   *)
(*     UptoEvmScheme.settle against an ERC-20 with permit                  *)
(*     (src/unnamed/part_002), and                                         *)
(*   - settleUptoSession driving UptoEvmScheme.settle through the local    *)
(*     facilitator client, and its callers that ask for a close, and       *)
(*   - the /supported metadata of the registered handlers                  *)
(*     (src/unnamed/part_001, src/unnamed/part_002).                       *)
(* Strings that carry integers are sequences of one-character strings, so  *)
(* that BigInt.toString and BigInt(string) are computed, not assumed.      *)
(***************************************************************************)
EXTENDS Integers, Sequences, FiniteSets, TLC

(***************************************************************************)
(* Bounds of the model.                                                    *)
(***************************************************************************)
\* the clock runs from 0 to MaxNow seconds
MaxNow == 2
\* settle calls issued per session before the model stops issuing more
MaxSettleCalls == 2

(***************************************************************************)
(* Program constants.                                                      *)
(***************************************************************************)
\* settleUptoSession(..., deadlineBufferSec = 60)
DefaultDeadlineBufferSec == 60

SessionIds == {"s1"}
Procs == {"sweeper", "closer"}
Reasons == {"idle", "close"}
\* metered charges passed to accrue, and caps a session can be created with:
\* 4 + 4 meets the cap 8 exactly, 4 + 7 stays under 12, 7 + 7 exceeds both
Deltas == {4, 7}
Caps == {8, 12}
\* deadlines (unix seconds) a session can be created with; with the default
\* buffer of 60 s the session is inside the buffer from now = deadline - 60 on
Deadlines == {DefaultDeadlineBufferSec + 1, DefaultDeadlineBufferSec + MaxNow + 1}
Network == "eip155:8453"

(***************************************************************************)
(* Decimal strings.                                                        *)
(***************************************************************************)
Digits == <<"0", "1", "2", "3", "4", "5", "6", "7", "8", "9">>

DigitChars == {Digits[i] : i \in 1..10}

DigitVal(c) == (CHOOSE i \in 1..10 : Digits[i] = c) - 1

RECURSIVE NatToString(_)
NatToString(n) ==
  IF n < 10 THEN <<Digits[n + 1]>>
  ELSE NatToString(n \div 10) \o <<Digits[(n % 10) + 1]>>

\* bigint.toString(): decimal digits, a leading "-" for a negative value
BigIntToString(n) == IF n < 0 THEN <<"-">> \o NatToString(-n) ELSE NatToString(n)

RECURSIVE DigitsToNat(_)
DigitsToNat(s) ==
  IF s = <<>> THEN 0
  ELSE 10 * DigitsToNat(SubSeq(s, 1, Len(s) - 1)) + DigitVal(s[Len(s)])

AllDigits(s) == \A i \in 1..Len(s) : s[i] \in DigitChars

\* BigInt(string): "" is 0n, an optional sign followed by decimal digits is
\* that integer, anything else throws a SyntaxError
BigIntParses(s) ==
  \/ s = <<>>
  \/ AllDigits(s)
  \/ Len(s) > 1 /\ s[1] \in {"-", "+"} /\ AllDigits(Tail(s))

BigIntOf(s) ==
  IF s = <<>> THEN 0
  ELSE IF s[1] = "-" THEN 0 - DigitsToNat(Tail(s))
  ELSE IF s[1] = "+" THEN DigitsToNat(Tail(s))
  ELSE DigitsToNat(s)

(***************************************************************************)
(* State.                                                                  *)
(***************************************************************************)
VARIABLES
  store,        \* UptoSessionStore: session id -> session record or NoSession
  now,          \* wall clock, unix seconds
  proc,         \* the settleUptoSession invocations, one per caller
  settleCalls,  \* number of facilitatorClient.settle calls issued per session
  lastReturn,   \* how the most recent settleUptoSession call ended, and whose
  request,      \* the payload, requirements and signer answer given to verify
  edited,       \* the properties in which request differs from a well-formed one
  verdict,      \* what UptoEvmScheme.verify did with request, once it has run
  token,        \* the ERC-20 contract: permit nonce, allowance, payer's balance
  settlePc,     \* where the running UptoEvmScheme.settle stands, "idle" if none
  signerCalls,  \* the calls the running or last settle has made on its signer
  response,     \* what the last UptoEvmScheme.settle returned or threw
  registry,     \* the dispatcher's handlers: (network, handler), oldest first
  closeRequested \* per session, what the last call with closeAfter found

sessionVars == <<store, proc, settleCalls, lastReturn>>
verifyVars == <<request, edited, verdict>>
settleVars == <<token, settlePc, signerCalls, response>>
vars ==
  <<store, now, proc, settleCalls, lastReturn, request, edited, verdict,
    token, settlePc, signerCalls, response, registry, closeRequested>>

NoSession == [status |-> "absent"]
NoSettlement == [reason |-> "none"]
NoCall == [payload |-> "none"]
NoReturn == [proc |-> "none", how |-> "none", outcome |-> "none"]

PaymentPayloadOf(id) == [session |-> id, accepted |-> [network |-> Network]]
PaymentRequirementsOf(id) == [session |-> id, network |-> Network, amount |-> <<"1">>]

IdleProc ==
  [pc |-> "idle", sessionId |-> "none", reason |-> "none", closeAfter |-> FALSE,
   session |-> NoSession, settleAmount |-> 0, call |-> NoCall]

\* the call of p returned normally ("absent", "not_open", "nothing_pending",
\* "settled") or an exception left it ("threw"); outcome is what the awaited
\* facilitatorClient.settle did, "none" when it was not called
Returned(p, how, outcome) == [proc |-> p, how |-> how, outcome |-> outcome]

NoRequest == [scheme |-> "none"]
NoVerdict == [kind |-> "none"]
NoResponse == [kind |-> "none"]

\* the token contract before any permit of the payer has been applied
FreshToken(balance) ==
  [nonceUsed |-> FALSE, allowance |-> 0, balance |-> balance, transferred |-> 0]

\* the payer's balance in the runs that are not about the chain
AmpleBalance == 20

InitSettle ==
  /\ token = FreshToken(AmpleBalance)
  /\ settlePc = "idle"
  /\ signerCalls = <<>>
  /\ response = NoResponse
  /\ registry = <<>>

InitSessions ==
  /\ store = [id \in SessionIds |-> NoSession]
  /\ proc = [p \in Procs |-> IdleProc]
  /\ settleCalls = [id \in SessionIds |-> 0]
  /\ lastReturn = NoReturn
  /\ closeRequested = [id \in SessionIds |-> "none"]

Init ==
  /\ InitSessions
  /\ now = 0
  /\ request = NoRequest
  /\ edited = {}
  /\ verdict = NoVerdict
  /\ InitSettle

(***************************************************************************)
(* The session store's own operations (sessionStore.ts is not part of the  *)
(* sources at hand; these follow the store contract of the specification). *)
(***************************************************************************)
NewSession(id, cap, deadline) ==
  [cap |-> cap, deadline |-> deadline, settledTotal |-> 0, pendingSpent |-> 0,
   status |-> "open", lastSettlement |-> NoSettlement,
   paymentPayload |-> PaymentPayloadOf(id),
   paymentRequirements |-> PaymentRequirementsOf(id)]

\* a session is created when the first upto payment succeeds verification
CreateSession(id, cap, deadline) ==
  /\ store[id] = NoSession
  /\ store' = [store EXCEPT ![id] = NewSession(id, cap, deadline)]
  /\ UNCHANGED <<now, proc, settleCalls, lastReturn>>
  /\ UNCHANGED <<verifyVars, settleVars, registry, closeRequested>>

\* accrue(id, delta) admits the charge iff the session is open, the charge
\* fits under the cap and the deadline is beyond the buffer
AccrueAdmits(s, delta, nowSec) ==
  /\ s.status = "open"
  /\ s.settledTotal + s.pendingSpent + delta <= s.cap
  /\ s.deadline > nowSec + DefaultDeadlineBufferSec

Accrue(id, delta) ==
  /\ store[id] # NoSession
  /\ IF AccrueAdmits(store[id], delta, now)
       THEN store' = [store EXCEPT ![id].pendingSpent = @ + delta]
       ELSE UNCHANGED store
  /\ UNCHANGED <<now, proc, settleCalls, lastReturn>>
  /\ UNCHANGED <<verifyVars, settleVars, registry, closeRequested>>

Tick ==
  /\ now < MaxNow
  /\ now' = now + 1
  /\ UNCHANGED <<store, proc, settleCalls, lastReturn>>
  /\ UNCHANGED <<verifyVars, settleVars, registry, closeRequested>>

(***************************************************************************)
(* settleUptoSession (src/src/upto/settlement.ts).  The function runs      *)
(* without suspension from its entry to the call of                        *)
(* facilitatorClient.settle (Begin), awaits the call, and runs without     *)
(* suspension from the return or throw of the call to its end (Resume).    *)
(***************************************************************************)
\* what facilitatorClient.settle can do: resolve with a success or failure
\* SettleResponse, or reject with an Error or with a value that is no Error
Outcomes ==
  { [kind |-> "ok", success |-> TRUE, errorReason |-> "none",
     transaction |-> "0xtx", message |-> "none"],
    [kind |-> "fail", success |-> FALSE, errorReason |-> "transaction_failed",
     transaction |-> "", message |-> "none"],
    [kind |-> "throwError", success |-> FALSE, errorReason |-> "none",
     transaction |-> "none", message |-> "rpc unreachable"],
    [kind |-> "throwOther", success |-> FALSE, errorReason |-> "none",
     transaction |-> "none", message |-> "none"] }

Throws(outcome) == outcome.kind \in {"throwError", "throwOther"}

\* variant of IsOpen: the gate turns away closed sessions only
IsOpen_NotClosed(session) == session.status # "closed"

\* variant of IsOpen: the gate turns away sessions being settled only
IsOpen_NotSettling(session) == session.status # "settling"

\* line 25: only an open session is settled
IsOpen(session) == session.status = "open"

\* variant of NothingPending: a session with nothing pending is settled too
NothingPending_OnlyNegative(session) == session.pendingSpent < 0

\* line 27
NothingPending(session) == session.pendingSpent <= 0

\* variant of SettleRequirements: the amount is not overridden
SettleRequirements_NoOverride(session, settleAmount) == session.paymentRequirements

\* lines 38-42: the session's requirements with amount overridden
SettleRequirements(session, settleAmount) ==
  [session.paymentRequirements EXCEPT !.amount = BigIntToString(settleAmount)]

\* variant of CatchSettle: the call is awaited outside any try/catch
CatchSettle_NoCatch(session, outcome) ==
  [threw |-> Throws(outcome),
   receipt |-> [success |-> outcome.success,
                errorReason |-> outcome.errorReason,
                transaction |-> outcome.transaction,
                network |-> Network]]

\* lines 44-58: the awaited call inside try/catch; a throw becomes a receipt
CatchSettle(session, outcome) ==
  IF Throws(outcome)
    THEN [threw |-> FALSE,
          receipt |-> [success |-> FALSE,
                       errorReason |-> IF outcome.kind = "throwError"
                                         THEN outcome.message
                                         ELSE "settlement_failed",
                       transaction |-> "",
                       network |-> session.paymentPayload.accepted.network]]
    ELSE [threw |-> FALSE,
          receipt |-> [success |-> outcome.success,
                       errorReason |-> outcome.errorReason,
                       transaction |-> outcome.transaction,
                       network |-> Network]]

\* variant of ApplyReceipt: a success does not reset pendingSpent
ApplyReceipt_KeepsPending(session, receipt, settleAmount) ==
  IF receipt.success
    THEN [session EXCEPT !.settledTotal = @ + settleAmount]
    ELSE session

\* variant of ApplyReceipt: pendingSpent is reset whatever the receipt says
ApplyReceipt_AlwaysClears(session, receipt, settleAmount) ==
  [session EXCEPT !.settledTotal = IF receipt.success THEN @ + settleAmount ELSE @,
                  !.pendingSpent = 0]

\* lines 60-63
ApplyReceipt(session, receipt, settleAmount) ==
  IF receipt.success
    THEN [session EXCEPT !.settledTotal = @ + settleAmount, !.pendingSpent = 0]
    ELSE session

\* variant of RecordSettlement: the receipt is not kept on the session
RecordSettlement_Skipped(session, reason, receipt) == session

\* lines 65-69
RecordSettlement(session, reason, receipt) ==
  [session EXCEPT !.lastSettlement = [reason |-> reason, receipt |-> receipt]]

\* variant of DecideStatus: the status is left as the lock set it
DecideStatus_LeftAsIs(session, closeAfter, nowSec, deadlineBufferSec) == session.status

\* variant of DecideStatus: a session settled up to its cap stays open
DecideStatus_CapIgnored(session, closeAfter, nowSec, deadlineBufferSec) ==
  IF closeAfter \/ session.deadline <= nowSec + deadlineBufferSec
    THEN "closed"
    ELSE "open"

\* variant of DecideStatus: the deadline comparison is strict
DecideStatus_StrictDeadline(session, closeAfter, nowSec, deadlineBufferSec) ==
  IF \/ closeAfter
     \/ session.settledTotal >= session.cap
     \/ session.deadline < nowSec + deadlineBufferSec
    THEN "closed"
    ELSE "open"

\* lines 71-80
DecideStatus(session, closeAfter, nowSec, deadlineBufferSec) ==
  IF \/ closeAfter
     \/ session.settledTotal >= session.cap
     \/ session.deadline <= nowSec + deadlineBufferSec
    THEN "closed"
    ELSE "open"

\* lines 23-49, as far as the store and the invocation go
BeginSession(p, id, reason, closeAfter) ==
  LET session == store[id] IN
  /\ proc[p].pc = "idle"
  /\ IF session = NoSession
       THEN /\ lastReturn' = Returned(p, "absent", "none")
            /\ UNCHANGED <<store, proc, settleCalls>>
     ELSE IF ~IsOpen(session)
       THEN /\ lastReturn' = Returned(p, "not_open", "none")
            /\ UNCHANGED <<store, proc, settleCalls>>
     ELSE IF NothingPending(session)
       THEN /\ store' = IF closeAfter
                          THEN [store EXCEPT ![id].status = "closed"]
                          ELSE store
            /\ lastReturn' = Returned(p, "nothing_pending", "none")
            /\ UNCHANGED <<proc, settleCalls>>
     ELSE LET locked == [session EXCEPT !.status = "settling"]
              settleAmount == locked.pendingSpent
          IN /\ settleCalls[id] < MaxSettleCalls
             /\ store' = [store EXCEPT ![id] = locked]
             /\ proc' = [proc EXCEPT ![p] =
                  [pc |-> "awaiting", sessionId |-> id, reason |-> reason,
                   closeAfter |-> closeAfter, session |-> locked,
                   settleAmount |-> settleAmount,
                   call |-> [payload |-> locked.paymentPayload,
                             requirements |-> SettleRequirements(locked, settleAmount)]]]
             /\ settleCalls' = [settleCalls EXCEPT ![id] = @ + 1]
             /\ UNCHANGED lastReturn

\* lines 23-49
Begin(p, id, reason, closeAfter) ==
  /\ BeginSession(p, id, reason, closeAfter)
  /\ UNCHANGED <<now, request, edited, verdict>>
  /\ UNCHANGED <<settleVars, registry, closeRequested>>

\* lines 50-83, as far as the store and the invocation go
ResumeSession(p, outcome) ==
  LET me == proc[p]
      caught == CatchSettle(me.session, outcome)
      applied == ApplyReceipt(me.session, caught.receipt, me.settleAmount)
      recorded == RecordSettlement(applied, me.reason, caught.receipt)
      final == [recorded EXCEPT !.status =
                  DecideStatus(recorded, me.closeAfter, now, DefaultDeadlineBufferSec)]
  IN
  /\ me.pc = "awaiting"
  /\ IF caught.threw
       THEN /\ lastReturn' = Returned(p, "threw", outcome.kind)
            /\ UNCHANGED store
       ELSE /\ store' = [store EXCEPT ![me.sessionId] = final]
            /\ lastReturn' = Returned(p, "settled", outcome.kind)
  /\ proc' = [proc EXCEPT ![p] = IdleProc]
  /\ UNCHANGED settleCalls

\* lines 50-83, entered when the awaited call resolves or rejects
Resume(p, outcome) ==
  /\ ResumeSession(p, outcome)
  /\ UNCHANGED <<now, request, edited, verdict>>
  /\ UNCHANGED <<settleVars, registry, closeRequested>>

Next ==
  \/ \E id \in SessionIds, cap \in Caps, deadline \in Deadlines :
       CreateSession(id, cap, deadline)
  \/ \E id \in SessionIds, delta \in Deltas : Accrue(id, delta)
  \/ Tick
  \/ \E p \in Procs, id \in SessionIds, reason \in Reasons, closeAfter \in BOOLEAN :
       Begin(p, id, reason, closeAfter)
  \/ \E p \in Procs, outcome \in Outcomes : Resume(p, outcome)

Spec == Init /\ [][Next]_vars

\* every facilitatorClient.settle call comes to an end, by returning or by
\* throwing, and the invocation awaiting it then runs on
SettleCallsTerminate ==
  \A p \in Procs : WF_vars(\E outcome \in Outcomes : Resume(p, outcome))

SpecLive == Spec /\ SettleCallsTerminate

(***************************************************************************)
(* The callers of settleUptoSession that ask for the session to be closed  *)
(* (the explicit close, the sweep of a session past the deadline buffer)   *)
(* next to the sweeps that do not.  What the last call with closeAfter     *)
(* found at lines 23-25 is kept per session: "taken" when the session was  *)
(* open, "dropped" when line 25 returned.                                  *)
(***************************************************************************)
\* the reason is a label copied into lastSettlement; where it plays no part
\* the invocations all carry the one of the idle sweep
SweepReason == "idle"

\* settlement.ts lines 23-25 as seen by a call with closeAfter
FoundBy(session) == IF IsOpen(session) THEN "taken" ELSE "dropped"

\* lines 23-49, with the fate of a close request on an existing session noted
Request(p, id, reason, closeAfter) ==
  /\ BeginSession(p, id, reason, closeAfter)
  /\ closeRequested' = IF closeAfter /\ store[id] # NoSession
                         THEN [closeRequested EXCEPT ![id] = FoundBy(store[id])]
                         ELSE closeRequested
  /\ UNCHANGED <<now, verifyVars, settleVars, registry>>

NextClose ==
  \/ \E id \in SessionIds, cap \in Caps, deadline \in Deadlines :
       CreateSession(id, cap, deadline)
  \/ \E id \in SessionIds, delta \in Deltas : Accrue(id, delta)
  \/ Tick
  \/ \E p \in Procs, id \in SessionIds, closeAfter \in BOOLEAN :
       Request(p, id, SweepReason, closeAfter)
  \/ \E p \in Procs, outcome \in Outcomes : Resume(p, outcome)

SpecClose == Init /\ [][NextClose]_vars

TypeOK ==
  /\ now \in 0..MaxNow
  /\ \A id \in SessionIds : settleCalls[id] \in 0..MaxSettleCalls
  /\ \A id \in SessionIds :
       store[id] # NoSession =>
         /\ store[id].status \in {"open", "settling", "closed"}
         /\ store[id].pendingSpent >= 0
         /\ store[id].settledTotal >= 0
  /\ \A p \in Procs : proc[p].pc \in {"idle", "awaiting"}

(***************************************************************************)
(* UptoEvmScheme.verify (src/unnamed/part_002, lines 90-258).              *)
(*                                                                         *)
(* A request is the payload, the requirements and what the signer's        *)
(* verifyTypedData will answer.  Plain strings (addresses, names, the      *)
(* signature) are strings, with Undefined for a missing property and ""    *)
(* for an empty one.  Strings that carry integers are sequences of         *)
(* characters, with UndefinedNum for a missing property and <<>> for "".   *)
(***************************************************************************)
Undefined == "undefined"
UndefinedNum == <<"undefined">>

\* JavaScript's !x on a string-valued property
Falsy(x) == x = Undefined \/ x = ""
FalsyNum(s) == s = UndefinedNum \/ s = <<>>

\* toBigInt (lines 67-74)
toBigInt(value) ==
  IF FalsyNum(value) THEN 0
  ELSE IF BigIntParses(value) THEN BigIntOf(value)
  ELSE 0

\* viem's getAddress: the checksummed form of a well-formed address, an
\* InvalidAddressError for anything else
ChecksumOf ==
  [a \in {"0xa", "0xA", "0xb", "0xB", "0xc", "0xC", "0xd", "0xD"} |->
     CASE a \in {"0xa", "0xA"} -> "0xA"
       [] a \in {"0xb", "0xB"} -> "0xB"
       [] a \in {"0xc", "0xC"} -> "0xC"
       [] a \in {"0xd", "0xD"} -> "0xD"]

IsAddress(a) == a \in DOMAIN ChecksumOf

getAddress(a) == ChecksumOf[a]

\* a CAIP-2 network "family:reference"; reference is UndefinedNum when the
\* string holds no colon
Caip(family, reference) == [family |-> family, reference |-> reference]

\* Number.isFinite(Number(network.split(":")[1])) (lines 194-195):
\* Number(undefined) is NaN, Number("") is 0, decimal digits give their value,
\* any other text over the characters used here gives NaN
ChainIdIsFinite(network) ==
  /\ network.reference # UndefinedNum
  /\ AllDigits(network.reference)

\* the 6 seconds of line 186
DeadlineSlackSec == 6

Invalid(reason, payer) ==
  [kind |-> "response", isValid |-> FALSE, invalidReason |-> reason, payer |-> payer]

Valid(payer) ==
  [kind |-> "response", isValid |-> TRUE, invalidReason |-> Undefined, payer |-> payer]

\* an exception leaves verify
Threw(error, payer) ==
  [kind |-> "throw", isValid |-> FALSE, invalidReason |-> error, payer |-> payer]

\* variant of CapTooLow: a cap equal to the required amount is turned away
CapTooLow_Inclusive(cap, requiredAmount) == cap <= requiredAmount

\* line 164
CapTooLow(cap, requiredAmount) == cap < requiredAmount

\* lines 172-176
MaxAmountRequiredOf(r) ==
  toBigInt(IF r.maxAmountRequired # UndefinedNum THEN r.maxAmountRequired
           ELSE r.maxAmount)

CapBelowRequiredMax(cap, maxAmountRequired) ==
  maxAmountRequired > 0 /\ cap < maxAmountRequired

\* variant of AuthorizationExpired: the comparison admits equality
AuthorizationExpired_Inclusive(deadline, nowSec) == deadline <= nowSec + DeadlineSlackSec

\* line 186
AuthorizationExpired(deadline, nowSec) == deadline < nowSec + DeadlineSlackSec

\* lines 229-252: verifyTypedData returning false or throwing
SignatureRejected(r) == r.signerSays # "true"

\* lines 162-257, entered with well-formed owner, spender and payTo
VerifyAmounts(r, nowSec, payer) ==
  LET cap == toBigInt(r.value)
      requiredAmount == toBigInt(r.amount)
      deadline == toBigInt(r.validBefore)
  IN IF CapTooLow(cap, requiredAmount) THEN Invalid("cap_too_low", payer)
     ELSE IF CapBelowRequiredMax(cap, MaxAmountRequiredOf(r))
       THEN Invalid("cap_below_required_max", payer)
     ELSE IF AuthorizationExpired(deadline, nowSec)
       THEN Invalid("authorization_expired", payer)
     ELSE IF ~ChainIdIsFinite(r.network) THEN Invalid("invalid_chain_id", payer)
     ELSE IF ~IsAddress(r.asset) THEN Threw("InvalidAddressError", payer)
     ELSE IF SignatureRejected(r) THEN Invalid("invalid_permit_signature", payer)
     ELSE Valid(payer)

\* lines 94-160, then VerifyAmounts
Verify(r, nowSec) ==
  LET payer == IF r.hasAuthorization THEN r.from ELSE Undefined
      owner == r.from
      spender == IF r.to # Undefined THEN r.to ELSE r.payTo
  IN IF r.acceptedScheme # "upto" \/ r.scheme # "upto"
       THEN Invalid("unsupported_scheme", payer)
     ELSE IF ~r.hasAuthorization \/ Falsy(r.signature)
       THEN Invalid("invalid_upto_evm_payload", payer)
     ELSE IF \/ Falsy(owner) \/ Falsy(spender)
             \/ FalsyNum(r.nonce) \/ FalsyNum(r.validBefore) \/ FalsyNum(r.value)
       THEN Invalid("invalid_upto_evm_payload", payer)
     ELSE IF ~IsAddress(owner) \/ ~IsAddress(spender)
       THEN Threw("InvalidAddressError", payer)
     ELSE IF r.acceptedNetwork # r.network THEN Invalid("network_mismatch", payer)
     ELSE IF Falsy(r.name) \/ Falsy(r.version)
       THEN Invalid("missing_eip712_domain", payer)
     ELSE IF ~IsAddress(r.payTo) THEN Threw("InvalidAddressError", payer)
     ELSE IF getAddress(spender) # getAddress(r.payTo)
       THEN Invalid("recipient_mismatch", payer)
     ELSE VerifyAmounts(r, nowSec, payer)

(***************************************************************************)
(* The requests verify is run on: the well-formed request of the clock     *)
(* reading nowSec, changed in at most MaxEdits of its properties.          *)
(***************************************************************************)
MaxEdits == 3

Base8453 == Caip("eip155", <<"8", "4", "5", "3">>)

BaseRequest(nowSec) ==
  [acceptedScheme |-> "upto", acceptedNetwork |-> Base8453,
   hasAuthorization |-> TRUE, signature |-> "0xsig",
   from |-> "0xa", to |-> "0xb", nonce |-> <<"0">>,
   validBefore |-> BigIntToString(nowSec + DeadlineSlackSec), value |-> <<"8">>,
   scheme |-> "upto", network |-> Base8453, payTo |-> "0xB", asset |-> "0xd",
   amount |-> <<"8">>, name |-> "USD Coin", version |-> "2",
   maxAmountRequired |-> UndefinedNum, maxAmount |-> UndefinedNum,
   signerSays |-> "true"]

Fields ==
  {"acceptedScheme", "acceptedNetwork", "hasAuthorization", "signature", "from",
   "to", "nonce", "validBefore", "value", "scheme", "network", "payTo", "asset",
   "amount", "name", "version", "maxAmountRequired", "maxAmount", "signerSays"}

Choices(field, nowSec) ==
  CASE field \in {"acceptedScheme", "scheme"} -> {"upto", "exact"}
    [] field = "acceptedNetwork" -> {Base8453, Caip("eip155", <<"1">>)}
    [] field = "network" ->
         {Base8453, Caip("eip155", <<"b", "a", "s", "e">>), Caip("eip155", UndefinedNum)}
    [] field = "hasAuthorization" -> BOOLEAN
    [] field = "signature" -> {"0xsig", Undefined}
    [] field = "from" -> {"0xa", Undefined, "not-an-address"}
    [] field = "to" -> {"0xb", Undefined, "0xC", "not-an-address"}
    [] field = "payTo" -> {"0xB", "not-an-address"}
    [] field = "asset" -> {"0xd", "not-an-address"}
    [] field = "nonce" -> {<<"0">>, UndefinedNum}
    [] field = "validBefore" ->
         {BigIntToString(nowSec + d) : d \in {DeadlineSlackSec - 1, DeadlineSlackSec,
                                               DeadlineSlackSec + 1}}
           \cup {<<>>, <<"z">>}
    [] field = "value" -> {<<"8">>, <<"7">>, <<"1", "0">>, <<"-", "1">>, <<"z">>}
    [] field = "amount" -> {<<"8">>, <<"9">>, <<"-", "1">>, <<"z">>}
    [] field = "name" -> {"USD Coin", Undefined}
    [] field = "version" -> {"2", ""}
    [] field = "maxAmountRequired" ->
         {UndefinedNum, <<"8">>, <<"9">>, <<"0">>, <<"z">>}
    [] field = "maxAmount" -> {UndefinedNum, <<"9">>}
    [] field = "signerSays" -> {"true", "false", "throws"}

\* clock readings verify runs at
VerifyClocks == {MaxNow, MaxNow + 2}

InitVerify ==
  /\ InitSessions
  /\ now \in VerifyClocks
  /\ request = BaseRequest(now)
  /\ edited = {}
  /\ verdict = NoVerdict
  /\ InitSettle

\* the client changes one property of the request it is about to send
EditRequest(field, v) ==
  /\ field \notin edited
  /\ Cardinality(edited) < MaxEdits
  /\ v # request[field]
  /\ request' = [request EXCEPT ![field] = v]
  /\ edited' = edited \cup {field}
  /\ verdict' = NoVerdict
  /\ UNCHANGED <<now, store, proc, settleCalls, lastReturn>>
  /\ UNCHANGED <<settleVars, registry, closeRequested>>

\* verify runs from line 94 to its return or throw; its one await is the
\* signer's answer, which request.signerSays fixes
RunVerify ==
  /\ verdict = NoVerdict
  /\ verdict' = Verify(request, now)
  /\ UNCHANGED <<now, request, edited, store, proc, settleCalls, lastReturn>>
  /\ UNCHANGED <<settleVars, registry, closeRequested>>

NextVerify ==
  \/ \E field \in Fields : \E v \in Choices(field, now) : EditRequest(field, v)
  \/ RunVerify

SpecVerify == InitVerify /\ [][NextVerify]_vars

(***************************************************************************)
(* UptoEvmScheme.settle (src/unnamed/part_002, lines 260-397) against an   *)
(* ERC-20 with EIP-2612 permit.  The token state is the payer's: whether   *)
(* the permit nonce of the authorization is consumed, the allowance the    *)
(* payer has given the spender, the payer's balance and what has been      *)
(* transferred out of it.  settle suspends at each signer call; a write    *)
(* and the wait for its receipt are one step.                              *)
(***************************************************************************)
TxHash == "0xtx"

Failure(reason, transaction, network, payer) ==
  [kind |-> "response", success |-> FALSE, errorReason |-> reason,
   transaction |-> transaction, network |-> network, payer |-> payer]

Success(transaction, network, payer) ==
  [kind |-> "response", success |-> TRUE, errorReason |-> Undefined,
   transaction |-> transaction, network |-> network, payer |-> payer]

\* an exception leaves settle
SettleThrew(error) ==
  [kind |-> "throw", success |-> FALSE, errorReason |-> error,
   transaction |-> "", network |-> Undefined, payer |-> Undefined]

\* lines 299-306: viem's parseSignature yields r, s and v or yParity for a
\* 65-byte ECDSA signature only
ParsesAsEcdsa(signature) == signature = "0xsig"

\* what the signer's transport does to a call: nothing, fail the submission
\* (nothing reaches the chain), or fail the wait for the receipt of a
\* transaction that was mined
Faults == {"none", "submit", "receipt"}

\* where a reverting transaction shows: at submission (gas estimation
\* throws, nothing is mined) or in the receipt (mined, status "reverted")
RevertsAt == {"submit", "receipt"}

\* writeContract followed by waitForTransactionReceipt, for a transaction
\* that the contract would execute (executes) or revert: what the caller
\* sees and whether the transaction was mined
SubmitAndWait(executes, fault, revertAt) ==
  IF fault = "submit" THEN [seen |-> "threw", mined |-> FALSE]
  ELSE IF ~executes /\ revertAt = "submit" THEN [seen |-> "threw", mined |-> FALSE]
  ELSE IF fault = "receipt" THEN [seen |-> "threw", mined |-> TRUE]
  ELSE IF executes THEN [seen |-> "success", mined |-> TRUE]
  ELSE [seen |-> "reverted", mined |-> TRUE]

\* EIP-2612 permit(owner, spender, value, deadline, v, r, s): the signature
\* verify accepted is good for the nonce it was signed over, once
PermitExecutes(t) == ~t.nonceUsed

PermitApplied(t, cap) == [t EXCEPT !.nonceUsed = TRUE, !.allowance = cap]

\* ERC-20 transferFrom(from, to, amount)
TransferExecutes(t, amount) == t.allowance >= amount /\ t.balance >= amount

TransferApplied(t, amount) ==
  [t EXCEPT !.allowance = @ - amount, !.balance = @ - amount,
            !.transferred = @ + amount]

\* one entry of signerCalls
Called(call, amount, seen) == [call |-> call, amount |-> amount, seen |-> seen]

\* variant of VerificationFailed: settle goes on whatever verify answered
VerificationFailed_Ignored(verification) == FALSE

\* line 266
VerificationFailed(verification) == ~verification.isValid

\* lines 264-314: the re-verification and the checks made before the first
\* contract call
SettleBegin ==
  /\ settlePc = "idle"
  /\ LET r == request
         verification == Verify(r, now)
         network == r.acceptedNetwork
         spender == IF r.to # Undefined THEN r.to ELSE r.payTo
         payer == getAddress(r.from)
         cap == toBigInt(r.value)
         totalSpent == toBigInt(r.amount)
         returns(resp) == response' = resp /\ settlePc' = "idle"
     IN /\ verdict' = verification
        /\ IF verification.kind = "throw"
             THEN returns(SettleThrew(verification.invalidReason))
           ELSE IF VerificationFailed(verification)
             THEN returns(Failure(IF verification.invalidReason # Undefined
                                    THEN verification.invalidReason
                                    ELSE "invalid_upto_evm_payload",
                                  "", network, verification.payer))
           ELSE IF ~IsAddress(r.from) \/ ~IsAddress(spender)
             THEN returns(SettleThrew("InvalidAddressError"))
           ELSE IF totalSpent > cap
             THEN returns(Failure("total_exceeds_cap", "", network, payer))
           ELSE IF ~IsAddress(r.asset)
             THEN returns(SettleThrew("InvalidAddressError"))
           ELSE IF ~ParsesAsEcdsa(r.signature)
             THEN returns(Failure("unsupported_signature_type", "", network, payer))
           ELSE response' = NoResponse /\ settlePc' = "permit"
  /\ signerCalls' = <<>>
  /\ UNCHANGED <<now, request, edited, token, store, proc, settleCalls, lastReturn,
                 registry, closeRequested>>

\* lines 321-331: the permit for the cap is submitted and its receipt awaited;
\* the status of the receipt is not looked at
Permit(fault, revertAt) ==
  /\ settlePc = "permit"
  /\ LET cap == toBigInt(request.value)
         done == SubmitAndWait(PermitExecutes(token), fault, revertAt)
     IN /\ token' = IF done.mined /\ PermitExecutes(token)
                      THEN PermitApplied(token, cap) ELSE token
        /\ signerCalls' = Append(signerCalls, Called("permit", cap, done.seen))
        /\ settlePc' = IF done.seen = "threw" THEN "allowance" ELSE "transferFrom"
  /\ UNCHANGED <<now, request, edited, verdict, response,
                 store, proc, settleCalls, lastReturn,
                 registry, closeRequested>>

\* lines 332-359: after a permit that threw, the allowance is read
Allowance(readThrows) ==
  /\ settlePc = "allowance"
  /\ LET totalSpent == toBigInt(request.amount)
         payer == getAddress(request.from)
         network == request.acceptedNetwork
     IN IF readThrows
          THEN /\ signerCalls' = Append(signerCalls, Called("allowance", 0, "threw"))
               /\ response' = Failure("permit_failed", "", network, payer)
               /\ settlePc' = "idle"
          ELSE /\ signerCalls' =
                    Append(signerCalls, Called("allowance", token.allowance, "success"))
               /\ IF token.allowance < totalSpent
                    THEN /\ response' =
                              Failure("insufficient_allowance", "", network, payer)
                         /\ settlePc' = "idle"
                    ELSE /\ settlePc' = "transferFrom"
                         /\ UNCHANGED response
  /\ UNCHANGED <<now, request, edited, verdict, token,
                 store, proc, settleCalls, lastReturn,
                 registry, closeRequested>>

\* variant of TransferOutcome: the status of the receipt is not looked at
TransferOutcome_StatusIgnored(seen, network, payer) ==
  IF seen = "threw" THEN Failure("transaction_failed", "", network, payer)
  ELSE Success(TxHash, network, payer)

\* lines 370-395: what settle returns for what the transferFrom call showed
TransferOutcome(seen, network, payer) ==
  CASE seen = "threw" -> Failure("transaction_failed", "", network, payer)
    [] seen = "reverted" -> Failure("invalid_transaction_state", TxHash, network, payer)
    [] seen = "success" -> Success(TxHash, network, payer)

\* lines 361-396: transferFrom(payer, payTo, totalSpent) is submitted and its
\* receipt awaited
TransferFrom(fault, revertAt) ==
  /\ settlePc = "transferFrom"
  /\ LET totalSpent == toBigInt(request.amount)
         payer == getAddress(request.from)
         network == request.acceptedNetwork
         executes == TransferExecutes(token, totalSpent)
         done == SubmitAndWait(executes, fault, revertAt)
     IN /\ token' = IF done.mined /\ executes
                      THEN TransferApplied(token, totalSpent) ELSE token
        /\ signerCalls' =
             Append(signerCalls, Called("transferFrom", totalSpent, done.seen))
        /\ response' = TransferOutcome(done.seen, network, payer)
  /\ settlePc' = "idle"
  /\ UNCHANGED <<now, request, edited, verdict, store, proc, settleCalls, lastReturn,
                 registry, closeRequested>>

(***************************************************************************)
(* The calls settle is run on: the well-formed payload and requirements,   *)
(* the payload changed in at most MaxEdits properties, the amount set by   *)
(* the orchestrator to what the session has pending.                       *)
(***************************************************************************)
SettleFields == {"signature", "to", "asset", "signerSays"}

SettleChoices(field) ==
  CASE field = "signature" -> {"0xsig", "0xsig1271", Undefined}
    [] field = "to" -> {"0xb", Undefined, "not-an-address"}
    [] field = "asset" -> {"0xd", "not-an-address"}
    [] field = "signerSays" -> {"true", "false"}

\* amounts the orchestrator asks for: 3 + 5 meets the cap 8 of the
\* authorization, 5 + 5 exceeds it, 9 exceeds it alone
SettleAmounts == {<<"3">>, <<"5">>, <<"9">>}

\* balances of the payer: 6 covers one of 3 or 5 and not both
Balances == {6, AmpleBalance}

InitSettleSpec ==
  /\ InitSessions
  /\ now = MaxNow
  /\ request = BaseRequest(now)
  /\ edited = {}
  /\ verdict = NoVerdict
  /\ token \in {FreshToken(b) : b \in Balances}
  /\ settlePc = "idle"
  /\ signerCalls = <<>>
  /\ response = NoResponse
  /\ registry = <<>>

\* the arguments of the next settle call are built
ArgumentsChange ==
  /\ settlePc = "idle"
  /\ verdict' = NoVerdict
  /\ response' = NoResponse
  /\ signerCalls' = <<>>
  /\ UNCHANGED <<now, token, settlePc, store, proc, settleCalls, lastReturn,
                 registry, closeRequested>>

\* the client sends a payload that differs in one more property
EditPayload(field, v) ==
  /\ field \notin edited
  /\ Cardinality(edited) < MaxEdits
  /\ v # request[field]
  /\ request' = [request EXCEPT ![field] = v]
  /\ edited' = edited \cup {field}
  /\ ArgumentsChange

\* settlement.ts lines 38-42: the requirements of a settle call carry the
\* amount the session has pending
RequireAmount(amount) ==
  /\ amount # request.amount
  /\ request' = [request EXCEPT !.amount = amount]
  /\ UNCHANGED edited
  /\ ArgumentsChange

NextSettle ==
  \/ \E field \in SettleFields : \E v \in SettleChoices(field) : EditPayload(field, v)
  \/ \E amount \in SettleAmounts : RequireAmount(amount)
  \/ SettleBegin
  \/ \E fault \in Faults, revertAt \in RevertsAt : Permit(fault, revertAt)
  \/ \E readThrows \in BOOLEAN : Allowance(readThrows)
  \/ \E fault \in Faults, revertAt \in RevertsAt : TransferFrom(fault, revertAt)

SpecSettle == InitSettleSpec /\ [][NextSettle]_vars

(***************************************************************************)
(* settleUptoSession with the local facilitator client, whose settle is    *)
(* UptoEvmScheme.settle on the session's payload and on the requirements   *)
(* carrying the pending amount: the call made at settlement.ts line 46     *)
(* runs the steps of settle against the token, and what settle returns or  *)
(* throws is what the awaiting invocation resumes with.                    *)
(***************************************************************************)
\* the payload stored with the session and the requirements of the call:
\* the authorization is signed for the session's cap and deadline
RequestOf(session, requirements) ==
  [BaseRequest(0) EXCEPT !.value = BigIntToString(session.cap),
                         !.validBefore = BigIntToString(session.deadline),
                         !.amount = requirements.amount]

\* settlement.ts lines 44-58: what the await at line 46 shows of the response
OutcomeOf(resp) ==
  IF resp.kind = "throw"
    THEN [kind |-> "throwError", success |-> FALSE, errorReason |-> "none",
          transaction |-> "none", message |-> resp.errorReason]
    ELSE [kind |-> IF resp.success THEN "ok" ELSE "fail",
          success |-> resp.success, errorReason |-> resp.errorReason,
          transaction |-> resp.transaction, message |-> "none"]

\* settlement.ts lines 23-49 with the call of line 46 handed to settle
Charge(p, id, reason, closeAfter) ==
  /\ BeginSession(p, id, reason, closeAfter)
  /\ IF proc'[p].pc = "awaiting"
       THEN /\ request' = RequestOf(proc'[p].session, proc'[p].call.requirements)
            /\ verdict' = NoVerdict
            /\ signerCalls' = <<>>
            /\ response' = NoResponse
       ELSE UNCHANGED <<request, verdict, signerCalls, response>>
  /\ UNCHANGED <<now, edited, token, settlePc, registry, closeRequested>>

\* the call that was handed over enters settle
ChargeSettle ==
  /\ \E p \in Procs : proc[p].pc = "awaiting"
  /\ response = NoResponse
  /\ SettleBegin

\* settlement.ts lines 50-83 on what settle returned or threw
Charged(p) ==
  /\ settlePc = "idle"
  /\ response # NoResponse
  /\ Resume(p, OutcomeOf(response))

NextCharge ==
  \/ \E id \in SessionIds, cap \in Caps, deadline \in Deadlines :
       CreateSession(id, cap, deadline)
  \/ \E id \in SessionIds, delta \in Deltas : Accrue(id, delta)
  \/ Tick
  \/ \E p \in Procs, id \in SessionIds, closeAfter \in BOOLEAN :
       Charge(p, id, SweepReason, closeAfter)
  \/ ChargeSettle
  \/ \E fault \in Faults, revertAt \in RevertsAt : Permit(fault, revertAt)
  \/ \E readThrows \in BOOLEAN : Allowance(readThrows)
  \/ \E fault \in Faults, revertAt \in RevertsAt : TransferFrom(fault, revertAt)
  \/ \E p \in Procs : Charged(p)

SpecCharge == Init /\ [][NextCharge]_vars

(***************************************************************************)
(* The handlers' /supported metadata (src/unnamed/part_001 lines 50-61,    *)
(* src/unnamed/part_002 lines 82-88) and the dispatcher's registry.  The   *)
(* dispatcher is the class x402Facilitator of the package @x402/core,      *)
(* whose code is not part of the sources at hand: register and             *)
(* getSupported follow the dispatcher contract of the specification, as    *)
(* exercised by src/tests/unit/starknet.test.ts lines 59-73.               *)
(***************************************************************************)
\* entries the registry holds before the model stops adding more
MaxRegistered == 3

\* getExtra returning undefined
UndefinedExtra == [undefined |-> TRUE]

NoConfig == [network |-> Undefined, paymasterEndpoint |-> Undefined,
             sponsorAddress |-> Undefined]

\* new ExactStarknetScheme(config)
ExactStarknetScheme(config) ==
  [class |-> "ExactStarknetScheme", scheme |-> "exact", caipFamily |-> "starknet:*",
   config |-> config, addresses |-> <<>>]

\* new UptoEvmScheme(signer), addresses being signer.getAddresses()
UptoEvmScheme(addresses) ==
  [class |-> "UptoEvmScheme", scheme |-> "upto", caipFamily |-> "eip155:*",
   config |-> NoConfig, addresses |-> addresses]

\* variant of StarknetGetExtra: the sponsor address is advertised even when
\* the configuration has none
StarknetGetExtra_AlwaysSponsor(config) ==
  [paymasterEndpoint |-> config.paymasterEndpoint,
   sponsorAddress |-> config.sponsorAddress]

\* ExactStarknetScheme.getExtra (part_001 lines 50-57)
StarknetGetExtra(config) ==
  IF ~Falsy(config.sponsorAddress)
    THEN [paymasterEndpoint |-> config.paymasterEndpoint,
          sponsorAddress |-> config.sponsorAddress]
    ELSE [paymasterEndpoint |-> config.paymasterEndpoint]

\* ExactStarknetScheme.getSigners (part_001 lines 59-61)
StarknetGetSigners(config) ==
  IF ~Falsy(config.sponsorAddress) THEN <<config.sponsorAddress>> ELSE <<>>

getExtra(handler, network) ==
  CASE handler.class = "ExactStarknetScheme" -> StarknetGetExtra(handler.config)
    [] handler.class = "UptoEvmScheme" -> UndefinedExtra

getSigners(handler, network) ==
  CASE handler.class = "ExactStarknetScheme" -> StarknetGetSigners(handler.config)
    [] handler.class = "UptoEvmScheme" -> handler.addresses

Range(seq) == {seq[i] : i \in 1..Len(seq)}

\* register(network, handler): the handler goes under (network, handler.scheme),
\* taking the place of the one registered there before
Registered(reg, network, handler) ==
  IF \E i \in 1..Len(reg) :
       reg[i].network = network /\ reg[i].handler.scheme = handler.scheme
    THEN [i \in 1..Len(reg) |->
            IF reg[i].network = network /\ reg[i].handler.scheme = handler.scheme
              THEN [network |-> network, handler |-> handler]
              ELSE reg[i]]
    ELSE Append(reg, [network |-> network, handler |-> handler])

Register(network, handler) ==
  /\ Len(Registered(registry, network, handler)) <= MaxRegistered
  /\ registry' = Registered(registry, network, handler)
  /\ UNCHANGED <<store, now, proc, settleCalls, lastReturn, request, edited, verdict,
                 token, settlePc, signerCalls, response, closeRequested>>

RECURSIVE AddSigners(_, _)
AddSigners(known, addresses) ==
  IF addresses = <<>> THEN known
  ELSE AddSigners(IF Head(addresses) \in Range(known) THEN known
                  ELSE Append(known, Head(addresses)),
                  Tail(addresses))

RECURSIVE FamilySigners(_, _)
FamilySigners(reg, family) ==
  IF reg = <<>> THEN <<>>
  ELSE LET before == FamilySigners(SubSeq(reg, 1, Len(reg) - 1), family)
           entry == reg[Len(reg)]
       IN IF entry.handler.caipFamily = family
            THEN AddSigners(before, getSigners(entry.handler, entry.network))
            ELSE before

\* getSupported(): one kind per registry entry, the signers of the handlers
\* grouped under their caipFamily without repetition
getSupported(reg) ==
  [kinds |-> [i \in 1..Len(reg) |->
                [network |-> reg[i].network, scheme |-> reg[i].handler.scheme,
                 extra |-> getExtra(reg[i].handler, reg[i].network)]],
   signers |-> [family \in {reg[i].handler.caipFamily : i \in 1..Len(reg)} |->
                  FamilySigners(reg, family)]]

PaymasterEndpoint == "https://starknet.paymaster.avnu.fi"

StarknetConfigs ==
  {[network |-> "starknet:mainnet", paymasterEndpoint |-> PaymasterEndpoint,
    sponsorAddress |-> a] : a \in {Undefined, "", "0xabc123", "0xdef456"}}

Handlers ==
  {ExactStarknetScheme(config) : config \in StarknetConfigs}
    \cup {UptoEvmScheme(<<"0xfac1">>), UptoEvmScheme(<<"0xfac1", "0xfac2">>)}

RegisteredNetworks == {"starknet:mainnet", "starknet:sepolia", Network}

NextSupported ==
  \E network \in RegisteredNetworks, handler \in Handlers : Register(network, handler)

SpecSupported == Init /\ [][NextSupported]_vars

\* the session a suspended invocation holds is the stored one: nothing writes
\* a session between the lock and the resumption of its holder
LocalCopyFresh ==
  \A p \in Procs : proc[p].pc = "awaiting" => store[proc[p].sessionId] = proc[p].session

(***************************************************************************)
(* Steps of settleUptoSession, as seen on a pair of states.                *)
(***************************************************************************)
\* p's invocation takes the lock on id and issues the settle call
Locks(p, id) ==
  proc[p].pc = "idle" /\ proc'[p].pc = "awaiting" /\ proc'[p].sessionId = id

\* p's invocation resumes after its settle call and ends
Resumes(p) == proc[p].pc = "awaiting" /\ proc'[p].pc = "idle"

FailureKinds == {"fail", "throwError", "throwOther"}
ThrowKinds == {"throwError", "throwOther"}

\* p resumes after a settle call that returned success=false or threw
ResumesAfterFailure(p) == Resumes(p) /\ lastReturn'.outcome \in FailureKinds

Holders(id) == {p \in Procs : proc[p].pc = "awaiting" /\ proc[p].sessionId = id}

Exists(id) == store[id] # NoSession

(***************************************************************************)
(* C1.  For every session, in every reachable state,                       *)
(* settledTotal + pendingSpent <= cap.                                     *)
(***************************************************************************)
C1_WithinCap ==
  \A id \in SessionIds :
    Exists(id) => store[id].settledTotal + store[id].pendingSpent <= store[id].cap

\* a session that was settled once, accrued again and sits exactly at its cap
C1_Witness ==
  \E id \in SessionIds :
    /\ Exists(id)
    /\ store[id].settledTotal > 0
    /\ store[id].pendingSpent > 0
    /\ store[id].settledTotal + store[id].pendingSpent = store[id].cap

(***************************************************************************)
(* C2.  Concurrent settleUptoSession calls on one session: a session is in *)
(* status settling exactly while one invocation holds it, never two; the   *)
(* invocation that takes an open session to settling issues one settle     *)
(* call for the pendingSpent it found; and while the session is not open   *)
(* every other invocation leaves the session and the number of settle      *)
(* calls as they are.                                                      *)
(***************************************************************************)
C2_OneHolder ==
  \A id \in SessionIds :
    /\ Cardinality(Holders(id)) <= 1
    /\ Exists(id) => (store[id].status = "settling" <=> Holders(id) # {})

C2_Step ==
  \A id \in SessionIds :
    /\ (Exists(id) /\ store[id].status = "open" /\ store'[id].status = "settling") =>
         /\ store[id].pendingSpent > 0
         /\ \E p \in Procs :
              /\ Locks(p, id)
              /\ proc'[p].settleAmount = store[id].pendingSpent
              /\ \A q \in Procs \ {p} : proc'[q] = proc[q]
         /\ settleCalls'[id] = settleCalls[id] + 1
    /\ (Exists(id) /\ store[id].status # "open" /\ ~(\E p \in Holders(id) : Resumes(p))) =>
         /\ store'[id] = store[id]
         /\ settleCalls'[id] = settleCalls[id]
         /\ \A p \in Procs : proc'[p] = proc[p]

C2_SingleSettler == [](C2_OneHolder) /\ [][C2_Step]_vars

\* one invocation holds the session in settling and the other has just
\* observed a non-open status and returned
C2_Witness ==
  \E id \in SessionIds, p \in Procs :
    /\ Holders(id) = {p}
    /\ store[id].status = "settling"
    /\ lastReturn.how = "not_open"
    /\ lastReturn.proc \in Procs \ {p}

(***************************************************************************)
(* C3.  Closed is terminal: from a state in which a session is closed, no  *)
(* step changes its settledTotal, pendingSpent or status, and none issues  *)
(* a settle call for it.                                                   *)
(***************************************************************************)
C3_Step ==
  \A id \in SessionIds :
    (Exists(id) /\ store[id].status = "closed") =>
      /\ store'[id].status = "closed"
      /\ store'[id].settledTotal = store[id].settledTotal
      /\ store'[id].pendingSpent = store[id].pendingSpent
      /\ settleCalls'[id] = settleCalls[id]

C3_ClosedIsTerminal == [][C3_Step]_vars

\* a closed session on which a later settleUptoSession call has returned
C3_Witness ==
  \E id \in SessionIds :
    /\ Exists(id)
    /\ store[id].status = "closed"
    /\ lastReturn.how = "not_open"

(***************************************************************************)
(* C4.  Settlement failure preserves pending: when the settle call returns *)
(* success=false or throws, the resumed invocation leaves pendingSpent and *)
(* settledTotal at their values from before the call, records a receipt    *)
(* with success=false (transaction "" after a throw), and, with            *)
(* closeAfter=false and the deadline beyond the buffer, sets status open.  *)
(***************************************************************************)
C4_Step ==
  \A p \in Procs :
    ResumesAfterFailure(p) =>
      LET id == proc[p].sessionId
          after == store'[id]
      IN /\ after.pendingSpent = proc[p].settleAmount
         /\ after.pendingSpent = store[id].pendingSpent
         /\ after.settledTotal = store[id].settledTotal
         /\ after.lastSettlement # NoSettlement
         /\ after.lastSettlement.receipt.success = FALSE
         /\ lastReturn'.outcome \in ThrowKinds =>
              after.lastSettlement.receipt.transaction = ""
         /\ (~proc[p].closeAfter /\ after.deadline > now + DefaultDeadlineBufferSec) =>
              after.status = "open"

C4_FailurePreservesPending == [][C4_Step]_vars

\* after a settle call that threw: the session is open again with its pending
\* amount and a failure receipt
C4_Witness ==
  \E id \in SessionIds :
    /\ Exists(id)
    /\ lastReturn.how = "settled"
    /\ lastReturn.outcome = "throwError"
    /\ store[id].status = "open"
    /\ store[id].pendingSpent > 0
    /\ store[id].lastSettlement # NoSettlement
    /\ store[id].lastSettlement.receipt.success = FALSE
    /\ store[id].lastSettlement.receipt.transaction = ""

(***************************************************************************)
(* C5.  As claimed: after a settleUptoSession whose settle call failed the *)
(* session is open unless deadline <= now + deadlineBufferSec.             *)
(***************************************************************************)
C5_Claimed_Step ==
  \A p \in Procs :
    ResumesAfterFailure(p) =>
      LET id == proc[p].sessionId
      IN store'[id].deadline > now + DefaultDeadlineBufferSec =>
           store'[id].status = "open"

C5_Claimed == [][C5_Claimed_Step]_vars

(***************************************************************************)
(* C5, amended.  After a settleUptoSession whose settle call failed the    *)
(* session is open unless closeAfter was true or                           *)
(* deadline <= now + deadlineBufferSec, in which two cases it is closed;   *)
(* either way pendingSpent is the amount the failed call was for.          *)
(***************************************************************************)
C5_Step ==
  \A p \in Procs :
    ResumesAfterFailure(p) =>
      LET id == proc[p].sessionId
          stayOpen == /\ ~proc[p].closeAfter
                      /\ store'[id].deadline > now + DefaultDeadlineBufferSec
      IN /\ store'[id].status = IF stayOpen THEN "open" ELSE "closed"
         /\ store'[id].pendingSpent = proc[p].settleAmount

C5_FailureNonFatal == [][C5_Step]_vars

\* a second settle call for the same pending amount has failed too and the
\* session is still open for the next sweep
C5_Witness ==
  \E id \in SessionIds :
    /\ Exists(id)
    /\ lastReturn.how = "settled"
    /\ lastReturn.outcome = "fail"
    /\ settleCalls[id] = 2
    /\ store[id].settledTotal = 0
    /\ store[id].status = "open"
    /\ store[id].pendingSpent > 0

(***************************************************************************)
(* C6.  Batched settlement: the invocation that locks an open session      *)
(* issues exactly one settle call, with the session's payload and with the *)
(* session's requirements whose amount is the decimal string of the        *)
(* pendingSpent at lock time; when that call succeeds, the resumption      *)
(* issues no further call, adds exactly that amount to settledTotal and    *)
(* sets pendingSpent to 0.                                                 *)
(***************************************************************************)
C6_Step ==
  \A p \in Procs :
    /\ \A id \in SessionIds :
         Locks(p, id) =>
           LET call == proc'[p].call
           IN /\ settleCalls'[id] = settleCalls[id] + 1
              /\ call.payload = store[id].paymentPayload
              /\ BigIntParses(call.requirements.amount)
              /\ BigIntOf(call.requirements.amount) = store[id].pendingSpent
              /\ [call.requirements EXCEPT !.amount = store[id].paymentRequirements.amount]
                   = store[id].paymentRequirements
    /\ (Resumes(p) /\ lastReturn'.outcome = "ok") =>
         LET id == proc[p].sessionId
             amount == BigIntOf(proc[p].call.requirements.amount)
         IN /\ settleCalls'[id] = settleCalls[id]
            /\ store'[id].settledTotal = store[id].settledTotal + amount
            /\ store'[id].pendingSpent = 0

C6_BatchedSettlement == [][C6_Step]_vars

\* the charges 4 and 7 were settled by one call: settledTotal 11, nothing pending
C6_Witness ==
  \E id \in SessionIds :
    /\ Exists(id)
    /\ settleCalls[id] = 1
    /\ lastReturn.outcome = "ok"
    /\ store[id].settledTotal = 11
    /\ store[id].pendingSpent = 0

(***************************************************************************)
(* C7.  settleUptoSession never throws to its caller: no invocation ends   *)
(* by an exception, and after a settle call that threw the session carries *)
(* a failure receipt with transaction "" whose errorReason is the Error's  *)
(* message, or "settlement_failed" for a thrown value that is no Error.    *)
(***************************************************************************)
C7_NeverThrows ==
  /\ lastReturn.how # "threw"
  /\ lastReturn.outcome \in ThrowKinds =>
       \E id \in SessionIds :
         /\ Exists(id)
         /\ store[id].lastSettlement # NoSettlement
         /\ store[id].lastSettlement.receipt.success = FALSE
         /\ store[id].lastSettlement.receipt.transaction = ""
         /\ store[id].lastSettlement.receipt.errorReason =
              IF lastReturn.outcome = "throwError" THEN "rpc unreachable"
              ELSE "settlement_failed"

\* an invocation returned normally after its settle call threw a non-Error
C7_Witness ==
  /\ lastReturn.how = "settled"
  /\ lastReturn.outcome = "throwOther"

(***************************************************************************)
(* The checks of verify as the specification's table states them, each on  *)
(* its own, and the order the table gives them.                            *)
(***************************************************************************)
CheckOrder ==
  <<"unsupported_scheme", "invalid_upto_evm_payload", "network_mismatch",
    "missing_eip712_domain", "recipient_mismatch", "cap_too_low",
    "cap_below_required_max", "authorization_expired", "invalid_chain_id",
    "invalid_permit_signature">>

SpenderOf(r) == IF r.to # Undefined THEN r.to ELSE r.payTo

SameAddress(a, b) ==
  IF IsAddress(a) /\ IsAddress(b) THEN getAddress(a) = getAddress(b) ELSE a = b

CheckFails(tag, r, nowSec) ==
  CASE tag = "unsupported_scheme" -> r.acceptedScheme # "upto" \/ r.scheme # "upto"
    [] tag = "invalid_upto_evm_payload" ->
         \/ ~r.hasAuthorization \/ Falsy(r.signature)
         \/ Falsy(r.from) \/ Falsy(SpenderOf(r))
         \/ FalsyNum(r.nonce) \/ FalsyNum(r.validBefore) \/ FalsyNum(r.value)
    [] tag = "network_mismatch" -> r.acceptedNetwork # r.network
    [] tag = "missing_eip712_domain" -> Falsy(r.name) \/ Falsy(r.version)
    [] tag = "recipient_mismatch" -> ~SameAddress(SpenderOf(r), r.payTo)
    [] tag = "cap_too_low" -> toBigInt(r.value) < toBigInt(r.amount)
    [] tag = "cap_below_required_max" ->
         /\ MaxAmountRequiredOf(r) > 0
         /\ toBigInt(r.value) < MaxAmountRequiredOf(r)
    [] tag = "authorization_expired" ->
         toBigInt(r.validBefore) < nowSec + DeadlineSlackSec
    [] tag = "invalid_chain_id" -> ~ChainIdIsFinite(r.network)
    [] tag = "invalid_permit_signature" -> r.signerSays # "true"

Failing(r, nowSec) ==
  {i \in 1..Len(CheckOrder) : CheckFails(CheckOrder[i], r, nowSec)}

\* the position of the first failing check, 0 when every check passes
FirstFailing(r, nowSec) ==
  IF Failing(r, nowSec) = {} THEN 0
  ELSE CHOOSE i \in Failing(r, nowSec) : \A j \in Failing(r, nowSec) : i <= j

Position(tag) == CHOOSE i \in 1..Len(CheckOrder) : CheckOrder[i] = tag

Rejected(v, tag) == v.kind = "response" /\ ~v.isValid /\ v.invalidReason = tag

Accepted(v) == v.kind = "response" /\ v.isValid

\* owner, spender and payTo are well-formed addresses and no check placed
\* before tag fails: verify gets as far as the check of tag
Reaches(tag, r, nowSec) ==
  /\ IsAddress(r.from) /\ IsAddress(SpenderOf(r)) /\ IsAddress(r.payTo)
  /\ \A i \in 1..(Position(tag) - 1) : ~CheckFails(CheckOrder[i], r, nowSec)

(***************************************************************************)
(* C8.  As claimed: verify returns the tag of the first failing check in   *)
(* the fixed order, for every request on which a check fails, and returns  *)
(* isValid=true only when every check passes.                              *)
(***************************************************************************)
C8_Claimed ==
  verdict # NoVerdict =>
    /\ FirstFailing(request, now) > 0 =>
         Rejected(verdict, CheckOrder[FirstFailing(request, now)])
    /\ Accepted(verdict) => FirstFailing(request, now) = 0

\* what is left of C8 on the code: whenever verify returns at all, it
\* returns the first failing tag, or isValid=true when no check fails
VerifyOrderWhenReturning ==
  (verdict # NoVerdict /\ verdict.kind = "response") =>
    IF FirstFailing(request, now) > 0
      THEN Rejected(verdict, CheckOrder[FirstFailing(request, now)])
      ELSE Accepted(verdict)

(***************************************************************************)
(* C9.  Deadline boundary: on a request that gets as far as the deadline   *)
(* check, verify answers authorization_expired exactly when                *)
(* validBefore < now + 6; validBefore = now + 5 is answered                *)
(* authorization_expired, validBefore = now + 6 and now + 7 are not.       *)
(***************************************************************************)
C9_DeadlineBoundary ==
  (verdict # NoVerdict /\ Reaches("authorization_expired", request, now)) =>
    /\ Rejected(verdict, "authorization_expired")
         <=> toBigInt(request.validBefore) < now + 6
    /\ request.validBefore = BigIntToString(now + 5) =>
         Rejected(verdict, "authorization_expired")
    /\ request.validBefore \in {BigIntToString(now + 6), BigIntToString(now + 7)} =>
         /\ ~Rejected(verdict, "authorization_expired")
         /\ verdict.kind = "response" =>
              \/ Accepted(verdict)
              \/ verdict.invalidReason \in {"invalid_chain_id", "invalid_permit_signature"}

\* a request that is well-formed but for validBefore = now + 5
C9_Witness ==
  /\ edited = {"validBefore"}
  /\ request.validBefore = BigIntToString(now + 5)
  /\ Rejected(verdict, "authorization_expired")

(***************************************************************************)
(* C10.  As claimed: on a request that gets as far as the cap check,       *)
(* cap = amount passes it and cap = amount - 1 is answered cap_too_low;    *)
(* and when extra.maxAmountRequired (or, without it, extra.maxAmount) is   *)
(* set, a cap that passes the cap check and is below it is answered        *)
(* cap_below_required_max.                                                 *)
(***************************************************************************)
MaxIsSet(r) == r.maxAmountRequired # UndefinedNum \/ r.maxAmount # UndefinedNum

ClaimedMax(r) ==
  toBigInt(IF r.maxAmountRequired # UndefinedNum THEN r.maxAmountRequired ELSE r.maxAmount)

CapBoundary(r, v) ==
  LET cap == toBigInt(r.value)
      amount == toBigInt(r.amount)
  IN /\ cap = amount => ~Rejected(v, "cap_too_low")
     /\ cap = amount - 1 => Rejected(v, "cap_too_low")

C10_Claimed ==
  (verdict # NoVerdict /\ Reaches("cap_too_low", request, now)) =>
    /\ CapBoundary(request, verdict)
    /\ ( /\ MaxIsSet(request)
         /\ toBigInt(request.value) >= toBigInt(request.amount)
         /\ toBigInt(request.value) < ClaimedMax(request) ) =>
         Rejected(verdict, "cap_below_required_max")

(***************************************************************************)
(* C10, amended.  As C10, the last part read: when extra.maxAmountRequired *)
(* (or, without it, extra.maxAmount) is set to a decimal string of an      *)
(* integer greater than zero, a cap that passes the cap check and is below *)
(* it is answered cap_below_required_max.                                  *)
(***************************************************************************)
C10_CapBoundary ==
  (verdict # NoVerdict /\ Reaches("cap_too_low", request, now)) =>
    /\ CapBoundary(request, verdict)
    /\ ( /\ MaxIsSet(request)
         /\ ClaimedMax(request) > 0
         /\ toBigInt(request.value) >= toBigInt(request.amount)
         /\ toBigInt(request.value) < ClaimedMax(request) ) =>
         Rejected(verdict, "cap_below_required_max")

\* cap = amount = 8 passes the cap check and falls short of the legacy
\* extra.maxAmount = 9
C10_Witness ==
  /\ edited = {"maxAmount"}
  /\ request.value = request.amount
  /\ request.maxAmount = <<"9">>
  /\ Rejected(verdict, "cap_below_required_max")

(***************************************************************************)
(* C11.  As claimed: every integer field of the request that is present    *)
(* and is not a parseable decimal string counts as zero, and a request     *)
(* that carries such a field is not answered isValid=true.                 *)
(***************************************************************************)
IntegerFields == {"value", "validBefore", "amount", "maxAmountRequired"}

Unparseable(s) == s # UndefinedNum /\ ~BigIntParses(s)

UnparseableFields(r) == {f \in IntegerFields : Unparseable(r[f])}

C11_Claimed ==
  (verdict # NoVerdict /\ UnparseableFields(request) # {}) =>
    /\ \A f \in UnparseableFields(request) : toBigInt(request[f]) = 0
    /\ ~Accepted(verdict)

\* what holds on the code: an unparseable field counts as zero; a request
\* with an unparseable validBefore is never answered isValid=true, and one
\* with an unparseable value is not when the required amount is above zero
UnparseableCountsAsZero ==
  verdict # NoVerdict =>
    /\ \A f \in UnparseableFields(request) : toBigInt(request[f]) = 0
    /\ Unparseable(request.validBefore) => ~Accepted(verdict)
    /\ (Unparseable(request.value) /\ toBigInt(request.amount) > 0) =>
         ~Accepted(verdict)

\* requirements.amount = "z" on an otherwise well-formed request, verify
\* answering isValid=true
UnparseableAmountAccepted ==
  /\ edited = {"amount"}
  /\ Unparseable(request.amount)
  /\ Accepted(verdict)

(***************************************************************************)
(* C12.  As claimed: no exception leaves UptoEvmScheme.verify or           *)
(* UptoEvmScheme.settle, whatever the payload and requirements (malformed  *)
(* addresses included) and whatever the signer does; both return a tagged  *)
(* response.                                                               *)
(***************************************************************************)
C12_Claimed ==
  /\ verdict # NoVerdict => verdict.kind = "response"
  /\ response # NoResponse => response.kind = "response"

\* what holds on the code: the signer's failures are all caught, and an
\* exception leaves settle only when it left the verify that settle ran
SignerFailuresAreCaught ==
  /\ (response # NoResponse /\ response.kind = "throw") => verdict.kind = "throw"
  /\ (verdict # NoVerdict /\ verdict.kind = "throw") =>
       \/ ~IsAddress(request.from) \/ ~IsAddress(SpenderOf(request))
       \/ ~IsAddress(request.payTo) \/ ~IsAddress(request.asset)

\* settle called with authorization.to = "not-an-address": the exception of
\* getAddress leaves verify and, through it, settle
SettleThrows ==
  /\ request.to = "not-an-address"
  /\ response.kind = "throw"
  /\ signerCalls = <<>>

(***************************************************************************)
(* C13.  settle runs verify before any contract call: when verify answers  *)
(* isValid=false, settle returns success=false with verify's invalidReason *)
(* (invalid_upto_evm_payload when there is none) and transaction "",       *)
(* having issued no permit write, allowance read or transferFrom write;    *)
(* and settle issues a contract call only after verify answered            *)
(* isValid=true.                                                           *)
(***************************************************************************)
ReasonOf(v) ==
  IF v.invalidReason # Undefined THEN v.invalidReason ELSE "invalid_upto_evm_payload"

C13_VerifyBeforeChain ==
  /\ (verdict # NoVerdict /\ verdict.kind = "response" /\ ~verdict.isValid) =>
       /\ response.kind = "response"
       /\ ~response.success
       /\ response.errorReason = ReasonOf(verdict)
       /\ response.transaction = ""
       /\ response.payer = verdict.payer
       /\ signerCalls = <<>>
       /\ settlePc = "idle"
  /\ (signerCalls # <<>> \/ settlePc # "idle") => Accepted(verdict)

\* the signer rejects the permit signature: settle answers
\* invalid_permit_signature and has called no contract
C13_Witness ==
  /\ edited = {"signerSays"}
  /\ Rejected(verdict, "invalid_permit_signature")
  /\ response.kind = "response"
  /\ response.errorReason = "invalid_permit_signature"
  /\ signerCalls = <<>>

(***************************************************************************)
(* C14.  As claimed: whenever the permit of a settle fails (its            *)
(* transaction reverts or the call throws), the allowance is read before   *)
(* any transferFrom; an allowance below totalSpent ends the settle with    *)
(* insufficient_allowance, a failed read with permit_failed, both without  *)
(* a transferFrom; and a transferFrom is submitted only after a permit     *)
(* that succeeded or an allowance read that returned at least totalSpent.  *)
(***************************************************************************)
CallsOf(name) == {i \in 1..Len(signerCalls) : signerCalls[i].call = name}

TotalSpent == toBigInt(request.amount)

\* the fallback as claimed, where failed(seen) says which outcomes of the
\* permit count as its failure
PermitFallback(failed(_)) ==
  /\ \A j \in CallsOf("transferFrom") :
       \/ \E i \in CallsOf("permit") : i < j /\ ~failed(signerCalls[i].seen)
       \/ \E i \in CallsOf("allowance") :
            /\ i < j
            /\ signerCalls[i].seen = "success"
            /\ signerCalls[i].amount >= TotalSpent
  /\ \A i \in CallsOf("permit") :
       (failed(signerCalls[i].seen) /\ Len(signerCalls) > i) =>
         /\ signerCalls[i + 1].call = "allowance"
         /\ signerCalls[i + 1].seen = "threw" =>
              /\ Len(signerCalls) = i + 1
              /\ response = Failure("permit_failed", "", request.acceptedNetwork,
                                    getAddress(request.from))
         /\ ( /\ signerCalls[i + 1].seen = "success"
              /\ signerCalls[i + 1].amount < TotalSpent ) =>
              /\ Len(signerCalls) = i + 1
              /\ response = Failure("insufficient_allowance", "",
                                    request.acceptedNetwork, getAddress(request.from))

PermitDidNotSucceed(seen) == seen # "success"

PermitThrew(seen) == seen = "threw"

C14_Claimed == PermitFallback(PermitDidNotSucceed)

\* what holds on the code: the fallback is taken when the permit write or
\* the wait for its receipt throws
FallbackWhenPermitThrows == PermitFallback(PermitThrew)

\* a permit mined with status "reverted", and transferFrom submitted next
\* with no allowance read in between
RevertedPermitThenTransfer ==
  /\ Len(signerCalls) = 2
  /\ signerCalls[1].call = "permit" /\ signerCalls[1].seen = "reverted"
  /\ signerCalls[2].call = "transferFrom"

(***************************************************************************)
(* C15.  As claimed: settles of one payload against a token whose permit   *)
(* is single-use.  The first permit that goes through sets the allowance   *)
(* to the cap and transferFrom follows; once the nonce is consumed the     *)
(* permit of a later settle fails, the allowance is read and is the cap    *)
(* less what has been transferred, and a transferFrom of an amount within  *)
(* that allowance is submitted and succeeds.                               *)
(***************************************************************************)
LastCall(calls) == calls[Len(calls)]

Cap == toBigInt(request.value)

PermitStep == settlePc = "permit" /\ settlePc' # "permit"

AllowanceStep == settlePc = "allowance" /\ settlePc' # "allowance"

TransferStep == settlePc = "transferFrom" /\ settlePc' # "transferFrom"

FirstPermitGoesThrough ==
  (PermitStep /\ ~token.nonceUsed /\ LastCall(signerCalls').seen = "success") =>
    /\ token' = PermitApplied(token, Cap)
    /\ settlePc' = "transferFrom"

ReplayedPermitFails ==
  (PermitStep /\ token.nonceUsed) => LastCall(signerCalls').seen # "success"

AllowanceIsWhatIsLeft ==
  (AllowanceStep /\ token.nonceUsed /\ LastCall(signerCalls').seen = "success") =>
    /\ LastCall(signerCalls').amount = Cap - token.transferred
    /\ TotalSpent <= Cap - token.transferred => settlePc' = "transferFrom"

TransferWithinAllowanceSucceeds ==
  ( /\ TransferStep /\ token.nonceUsed
    /\ TotalSpent <= Cap - token.transferred /\ TotalSpent <= token.balance
    /\ LastCall(signerCalls').seen # "threw" ) =>
    /\ LastCall(signerCalls').call = "transferFrom"
    /\ LastCall(signerCalls').amount = TotalSpent
    /\ response' = Success(TxHash, request.acceptedNetwork, getAddress(request.from))
    /\ token'.transferred = token.transferred + TotalSpent

C15_Claimed_Step ==
  /\ FirstPermitGoesThrough
  /\ ReplayedPermitFails
  /\ (PermitStep /\ token.nonceUsed) => settlePc' = "allowance"
  /\ AllowanceIsWhatIsLeft
  /\ TransferWithinAllowanceSucceeds

C15_Claimed == [][C15_Claimed_Step]_vars

\* what holds on the code: as claimed, but that the allowance is read only
\* when the replayed permit throws; in either case a transferFrom within what
\* is left of the allowance succeeds
ReplaySettles_Step ==
  /\ FirstPermitGoesThrough
  /\ ReplayedPermitFails
  /\ (PermitStep /\ token.nonceUsed) =>
       settlePc' = IF LastCall(signerCalls').seen = "threw"
                     THEN "allowance" ELSE "transferFrom"
  /\ AllowanceIsWhatIsLeft
  /\ TransferWithinAllowanceSucceeds

ReplaySettles == [][ReplaySettles_Step]_vars

\* second settle of the payload: 3 was transferred by the first, the permit
\* threw, the allowance read returned 8 - 3 and transferFrom(5) succeeded
ReplayThroughAllowance ==
  /\ token.transferred = 8
  /\ Len(signerCalls) = 3
  /\ signerCalls[1] = Called("permit", 8, "threw")
  /\ signerCalls[2] = Called("allowance", 5, "success")
  /\ signerCalls[3] = Called("transferFrom", 5, "success")
  /\ response.kind = "response" /\ response.success

(***************************************************************************)
(* C16.  What settle returns once transferFrom has been called: success    *)
(* with the transaction hash only for a receipt of status success;         *)
(* invalid_transaction_state with the transaction hash for a receipt of    *)
(* any other status; transaction_failed with transaction "" when the       *)
(* submission or the wait for the receipt threw.  settle returns success   *)
(* in no other way.                                                        *)
(***************************************************************************)
TransferCalled ==
  /\ settlePc = "idle"
  /\ signerCalls # <<>>
  /\ LastCall(signerCalls).call = "transferFrom"

C16_TransferOutcome ==
  /\ TransferCalled =>
       LET seen == LastCall(signerCalls).seen
       IN /\ response.kind = "response"
          /\ response.success <=> seen = "success"
          /\ seen = "success" =>
               response.transaction = TxHash /\ response.errorReason = Undefined
          /\ seen = "reverted" =>
               /\ response.errorReason = "invalid_transaction_state"
               /\ response.transaction = TxHash
          /\ seen = "threw" =>
               /\ response.errorReason = "transaction_failed"
               /\ response.transaction = ""
  /\ (response # NoResponse /\ response.success) => TransferCalled

\* the transferFrom transaction was mined and reverted
C16_Witness ==
  /\ TransferCalled
  /\ LastCall(signerCalls).seen = "reverted"
  /\ response.errorReason = "invalid_transaction_state"
  /\ response.transaction = TxHash

(***************************************************************************)
(* C19.  Every handler registered under a network shows in getSupported(): *)
(* as a kind {network, scheme, extra = getExtra(network)} and with its     *)
(* getSigners(network) under signers[caipFamily], no address twice.  An    *)
(* ExactStarknetScheme with a sponsorAddress gives extra =                 *)
(* {paymasterEndpoint, sponsorAddress} and the signer list [sponsorAddress]*)
(* under "starknet:*"; one without gives extra = {paymasterEndpoint} and   *)
(* no signer.                                                              *)
(***************************************************************************)
Supported == getSupported(registry)

NoRepeats(seq) == \A i, j \in 1..Len(seq) : seq[i] = seq[j] => i = j

WithSponsor(config) == config.sponsorAddress \notin {Undefined, ""}

\* the configurations of the handlers registered under a family
ConfigsOf(family) ==
  {registry[i].handler.config :
     i \in {j \in 1..Len(registry) : registry[j].handler.caipFamily = family}}

HasKind(network, scheme, extra) ==
  \E k \in Range(Supported.kinds) :
    k.network = network /\ k.scheme = scheme /\ k.extra = extra

C19_Supported ==
  \A i \in 1..Len(registry) :
    LET network == registry[i].network
        handler == registry[i].handler
        family == handler.caipFamily
        config == handler.config
    IN /\ HasKind(network, handler.scheme, getExtra(handler, network))
       /\ family \in DOMAIN Supported.signers
       /\ Range(getSigners(handler, network)) \subseteq Range(Supported.signers[family])
       /\ NoRepeats(Supported.signers[family])
       /\ handler.class = "ExactStarknetScheme" =>
            IF WithSponsor(config)
              THEN /\ HasKind(network, "exact",
                              [paymasterEndpoint |-> config.paymasterEndpoint,
                               sponsorAddress |-> config.sponsorAddress])
                   /\ config.sponsorAddress \in Range(Supported.signers["starknet:*"])
                   /\ ConfigsOf("starknet:*") = {config} =>
                        Supported.signers["starknet:*"] = <<config.sponsorAddress>>
              ELSE /\ HasKind(network, "exact",
                              [paymasterEndpoint |-> config.paymasterEndpoint])
                   /\ getSigners(handler, network) = <<>>
                   /\ (\A c \in ConfigsOf("starknet:*") : ~WithSponsor(c)) =>
                        Supported.signers["starknet:*"] = <<>>

\* one sponsored ExactStarknetScheme registered under two Starknet networks
\* and one without a sponsor: the sponsor is listed once
C19_Witness ==
  /\ Len(registry) >= 2
  /\ \A i \in 1..Len(registry) : registry[i].handler.class = "ExactStarknetScheme"
  /\ {c.sponsorAddress : c \in ConfigsOf("starknet:*")} = {"0xabc123", Undefined}
  /\ Supported.signers["starknet:*"] = <<"0xabc123">>
  /\ HasKind("starknet:mainnet", "exact",
             [paymasterEndpoint |-> PaymasterEndpoint, sponsorAddress |-> "0xabc123"])

(***************************************************************************)
(* C20.  Once settleUptoSession has called facilitatorClient.settle, with  *)
(* whatever outcome, the status it persists is closed exactly when         *)
(* closeAfter is true, or settledTotal >= cap, or                          *)
(* deadline <= now + deadlineBufferSec; it is open otherwise.              *)
(***************************************************************************)
C20_Step ==
  \A p \in Procs :
    Resumes(p) =>
      LET persisted == store'[proc[p].sessionId]
          closes == \/ proc[p].closeAfter
                    \/ persisted.settledTotal >= persisted.cap
                    \/ persisted.deadline <= now + DefaultDeadlineBufferSec
      IN /\ persisted.status \in {"open", "closed"}
         /\ persisted.status = "closed" <=> closes
         /\ lastReturn'.how = "settled"

C20_StatusDecision == [][C20_Step]_vars

\* a successful settle that brought settledTotal to the cap, well before the
\* deadline: the session was closed
C20_Witness ==
  \E id \in SessionIds :
    /\ Exists(id)
    /\ lastReturn.how = "settled" /\ lastReturn.outcome = "ok"
    /\ store[id].status = "closed"
    /\ store[id].settledTotal = store[id].cap
    /\ store[id].deadline > now + DefaultDeadlineBufferSec

(***************************************************************************)
(* C21.  The paths of settleUptoSession that settle nothing.  Called on an *)
(* absent session or on one whose status is not open, it leaves the store  *)
(* as it was and does not call facilitatorClient.settle.  Called on an     *)
(* open session with pendingSpent = 0, it does not call                    *)
(* facilitatorClient.settle, leaves settledTotal, pendingSpent and         *)
(* lastSettlement as they were, and the status becomes closed exactly      *)
(* when closeAfter is true.                                                *)
(***************************************************************************)
NoSettleCall == settleCalls' = settleCalls /\ proc' = proc

C21_Step ==
  \A p \in Procs, id \in SessionIds, reason \in Reasons, closeAfter \in BOOLEAN :
    Begin(p, id, reason, closeAfter) =>
      /\ (store[id] = NoSession \/ store[id].status # "open") =>
           store' = store /\ NoSettleCall
      /\ (store[id] # NoSession /\ store[id].status = "open"
            /\ store[id].pendingSpent = 0) =>
           /\ NoSettleCall
           /\ store'[id].settledTotal = store[id].settledTotal
           /\ store'[id].pendingSpent = store[id].pendingSpent
           /\ store'[id].lastSettlement = store[id].lastSettlement
           /\ store'[id].status = IF closeAfter THEN "closed" ELSE "open"
           /\ store'[id] = [store[id] EXCEPT !.status = store'[id].status]
           /\ \A other \in SessionIds \ {id} : store'[other] = store[other]

C21_NothingToSettle == [][C21_Step]_vars

\* a session that never had a settle call, closed by a call with
\* closeAfter = true while nothing was pending
C21_Witness ==
  \E id \in SessionIds :
    /\ Exists(id)
    /\ lastReturn.how = "nothing_pending"
    /\ settleCalls[id] = 0
    /\ store[id].status = "closed"
    /\ store[id].pendingSpent = 0
    /\ store[id].lastSettlement = NoSettlement

(***************************************************************************)
(* C22.  The status settling is transient.  A session is settling only     *)
(* while a facilitatorClient.settle call for it is in flight; when that    *)
(* call returns or throws, the invocation that made it moves the session   *)
(* to open or closed; and, every settle call coming to an end, a settling  *)
(* session eventually leaves settling.                                     *)
(***************************************************************************)
Settling(id) == Exists(id) /\ store[id].status = "settling"

SettlingOnlyInFlight ==
  \A id \in SessionIds : Settling(id) <=> Holders(id) # {}

C22_Step ==
  \A p \in Procs :
    Resumes(p) =>
      /\ Settling(proc[p].sessionId)
      /\ store'[proc[p].sessionId].status \in {"open", "closed"}

C22_SettlingIsTransient ==
  /\ []SettlingOnlyInFlight
  /\ [][C22_Step]_vars
  /\ \A id \in SessionIds : Settling(id) ~> ~Settling(id)

\* the settle call of a session threw; its invocation has put the session
\* back to open and nothing is in flight
C22_Witness ==
  \E id \in SessionIds :
    /\ Exists(id)
    /\ settleCalls[id] > 0
    /\ lastReturn.how = "settled" /\ lastReturn.outcome \in ThrowKinds
    /\ Holders(id) = {}
    /\ store[id].status = "open"

(***************************************************************************)
(* C23                                                                     *)
(***************************************************************************)
\* what transferFrom transactions have moved out of the payer's account
OnChain == token.transferred

\* C23: once no settlement of a session is in flight, the amount moved on
\* chain by transferFrom transactions does not exceed its settledTotal
C23_Claimed ==
  \A id \in SessionIds :
    Exists(id) /\ Holders(id) = {} => OnChain <= store[id].settledTotal

\* what is accounted as settled has been moved on chain
SettledWasCharged ==
  \A id \in SessionIds : Exists(id) => store[id].settledTotal <= OnChain

\* the transfers of a session stay within the cap its permit was signed for
ChargesWithinCap ==
  \A id \in SessionIds : Exists(id) => OnChain <= store[id].cap

\* a transferFrom the orchestrator took for failed was mined, and the retry
\* moved the same pending amount again
ChargedTwice ==
  \E id \in SessionIds :
    /\ Exists(id)
    /\ Holders(id) = {}
    /\ store[id].settledTotal > 0
    /\ OnChain = 2 * store[id].settledTotal
    /\ store[id].pendingSpent = 0

(***************************************************************************)
(* C24                                                                     *)
(***************************************************************************)
Closed(id) == Exists(id) /\ store[id].status = "closed"

LastSettlementFailed(id) ==
  /\ store[id].lastSettlement # NoSettlement
  /\ ~store[id].lastSettlement.receipt.success

C25_Claimed ==
  \A id \in SessionIds :
    closeRequested[id] # "none" /\ Holders(id) = {} => Closed(id)

\* a close request that finds the session open takes effect
CloseTakenTakesEffect ==
  \A id \in SessionIds :
    closeRequested[id] = "taken" /\ Holders(id) = {} => Closed(id)

\* a close request that line 25 returned from changes nothing
CloseDropped_Step ==
  \A p \in Procs, id \in SessionIds :
    Request(p, id, SweepReason, TRUE) /\ closeRequested'[id] = "dropped"
      => UNCHANGED <<store, proc, settleCalls>>

CloseDroppedIsNoOp == [][CloseDropped_Step]_vars

\* the close request came while a sweep held the session in settling; the
\* sweep has returned and the session is open again
CloseRequestLost ==
  \E id \in SessionIds :
    /\ closeRequested[id] = "dropped"
    /\ Holders(id) = {}
    /\ Exists(id)
    /\ store[id].status = "open"
====
